---- MODULE Spec2Model ----
(***************************************************************************)
(* Model of compiler/rustc_driver/src/data_wrapper.rs: the conversion of   *)
(* MIR terminators into MirTerminator snapshots and the recovery of the    *)
(* string literals a basic block references (str_const_from_operand and    *)
(* get_bb_refed_strs, mutually recursive through the promoted bodies).     *)
(*                                                                         *)
(* Strings are sequences of code points, allocations are sequences of      *)
(* bytes.  An Option<T> is NoneV or Some(v); a panic that unwinds out of   *)
(* the call is the value Panic.                                            *)
(***************************************************************************)
EXTENDS Integers, Sequences, FiniteSets, TLC

VARIABLES call_prom, call_opr, call_bb, call_kind,
          ret_str, ret_strs, ret_term,
          stack, pc

vars == <<call_prom, call_opr, call_bb, call_kind,
          ret_str, ret_strs, ret_term, stack, pc>>

(***************************************************************************)
(* Bounds of the explored inputs.                                          *)
(***************************************************************************)
\* longest statement list, aggregate and call-argument list of a block
MaxLen == 2
\* basic blocks of all promoted bodies of one table, taken together
MaxPromBlocks == 3
\* largest start / end offset of a slice constant (the allocation has 3 bytes)
MaxEnd == 4
\* largest basic-block index a terminator names
MaxBB == 1
\* longest target list of a SwitchInt
MaxTargets == 3
\* basic blocks of all promoted bodies of one table in the stepwise runs
MaxRunBlocks == 2

\* deepest call stack of the stepwise runs: an acyclic table of at most
\* MaxRunBlocks bodies never needs more than two frames per body plus the
\* frame of the block itself
MaxDepth == 2 * MaxRunBlocks + 3

(***************************************************************************)
(* Values.                                                                 *)
(***************************************************************************)
NoneV == [tag |-> "None"]
Some(v) == [tag |-> "Some", val |-> v]
Panic == [tag |-> "Panic"]
NotCalled == [tag |-> "NotCalled"]

IsSome(x) == x.tag = "Some"

SeqsUpTo(S, n) == UNION {[1..k -> S] : k \in 0..n}

RECURSIVE Join(_)
\* [String]::join(""): the strings one after the other, no separator
Join(strs) == IF strs = <<>> THEN <<>> ELSE Head(strs) \o Join(Tail(strs))

\* Iterator::filter_map over already computed Option values, in order
FilterMap(opts) ==
    LET kept == SelectSeq(opts, IsSome)
    IN  [i \in 1..Len(kept) |-> kept[i].val]

(***************************************************************************)
(* Allocation::get_bytes and String::from_utf8_lossy.                      *)
(***************************************************************************)
ReplacementChar == 65533

Ok(v) == [tag |-> "Ok", val |-> v]
Err == [tag |-> "Err"]

\* data.get_bytes(cx, AllocRange { start, size: end - start }): the bytes of
\* [start, end), an error when the range does not lie inside the allocation.
\* `end - start` is a usize subtraction: with end < start it overflows (a
\* panic in a checked build, a size of at least 2^64 - start otherwise, which
\* no allocation holds), so no bytes are returned either way.
get_bytes(data, start, end) ==
    IF start <= end /\ end <= Len(data)
    THEN Ok(SubSeq(data, start + 1, end))
    ELSE Err

RECURSIVE from_utf8_lossy(_)
\* bytes below 128 decode to themselves, a two-byte sequence (lead 0xC2..0xDF,
\* continuation 0x80..0xBF) to its code point, and any other byte of the
\* modelled alphabet (no three- or four-byte leads) to U+FFFD
from_utf8_lossy(bytes) ==
    IF bytes = <<>> THEN <<>>
    ELSE LET b == Head(bytes)
         IN  IF b < 128 THEN <<b>> \o from_utf8_lossy(Tail(bytes))
             ELSE IF /\ b >= 194 /\ b <= 223 /\ Len(bytes) >= 2
                     /\ bytes[2] >= 128 /\ bytes[2] <= 191
                  THEN <<(b - 192) * 64 + (bytes[2] - 128)>>
                       \o from_utf8_lossy(Tail(Tail(bytes)))
                  ELSE <<ReplacementChar>> \o from_utf8_lossy(Tail(bytes))

(***************************************************************************)
(* MIR: operands, rvalues, statements, terminators, blocks, promoted.      *)
(***************************************************************************)
\* BasicBlock is an index newtype over u32; as_u32 reads the index
BasicBlock(n) == [private |-> n]
as_u32(b) == b.private

TyRef(inner) == [kind |-> "Ref", ty |-> [kind |-> inner]]
TyInt == [kind |-> "Int", ty |-> [kind |-> "Int"]]

ConstSlice(data, start, end) ==
    [cv |-> "Slice", data |-> data, start |-> start, end |-> end]
ConstScalar == [cv |-> "Scalar"]

OperandCopy == [op |-> "Copy"]
OperandMove == [op |-> "Move"]
\* Operand::Constant with literal ConstantKind::Val(val, ty)
ConstantVal(val, ty) ==
    [op |-> "Constant", literal |-> [ck |-> "Val", val |-> val, ty |-> ty]]
\* Operand::Constant with literal ConstantKind::Ty(cst), cst.val() = val
ConstantTy(val) ==
    [op |-> "Constant", literal |-> [ck |-> "Ty", val |-> val]]
Unevaluated(promoted) == [k |-> "Unevaluated", promoted |-> promoted]
ConstKindValue == [k |-> "Value"]

\* prom.get(promoted) on the IndexVec of promoted bodies (indices from 0)
PromGet(prom, promoted) ==
    IF promoted + 1 \in DOMAIN prom THEN Some(prom[promoted + 1]) ELSE NoneV

Assign(rvalue) == [kind |-> "Assign", rvalue |-> rvalue]
Use(o) == [rv |-> "Use", opr |-> o]
Repeat(o) == [rv |-> "Repeat", opr |-> o]
Cast(o) == [rv |-> "Cast", opr |-> o]
UnaryOp(o) == [rv |-> "UnaryOp", opr |-> o]
BinaryOp(l, r) == [rv |-> "BinaryOp", ops |-> <<l, r>>]
CheckedBinaryOp(l, r) == [rv |-> "CheckedBinaryOp", ops |-> <<l, r>>]
Aggregate(v) == [rv |-> "Aggregate", v |-> v]
StorageLive == [kind |-> "StorageLive"]
Nop == [kind |-> "Nop"]

BasicBlockData(statements, terminator) ==
    [statements |-> statements, terminator |-> [kind |-> terminator],
     is_cleanup |-> FALSE]

(***************************************************************************)
(* The string resolver and the block harvester.  A call returns its value, *)
(* or Panic when the unwrap of an out-of-range read unwinds through it:    *)
(* str_const_from_operand returns NoneV, Some(string) or Panic,            *)
(* get_bb_refed_strs returns Ok(list of strings) or Panic.                 *)
(***************************************************************************)
IsPanic(x) == x.tag = "Panic"
AnyPanic(rs) == \E i \in DOMAIN rs : IsPanic(rs[i])

RECURSIVE str_const_from_operand(_, _)
RECURSIVE get_bb_refed_strs(_, _)

\* promoted_body_of refusing a promoted body whose resolution is under way
promoted_body_of_guarded(cst, prom) ==
    IF /\ cst.k = "Unevaluated"
       /\ IsSome(cst.promoted)
       /\ IsSome(PromGet(prom, cst.promoted.val))
       /\ \A d \in DOMAIN stack :
             stack[d].fn = "str_const_from_operand"
             => stack[d].promoted_body # PromGet(prom, cst.promoted.val).val
    THEN PromGet(prom, cst.promoted.val)
    ELSE NoneV

\* the three nested `if let`: the promoted body an unevaluated constant
\* names, when the table has it
promoted_body_of(cst, prom) ==
    IF /\ cst.k = "Unevaluated"
       /\ IsSome(cst.promoted)
       /\ IsSome(PromGet(prom, cst.promoted.val))
    THEN PromGet(prom, cst.promoted.val)
    ELSE NoneV

\* slice_str with the failed read taken for "no string"
slice_str_no_unwrap(val) ==
    LET data == get_bytes(val.data, val.start, val.end)
    IN  IF data = Err THEN NoneV
        ELSE Some(from_utf8_lossy(data.val))

\* get_bytes(..).unwrap() and the lossy decoding of a ConstValue::Slice
slice_str(val) ==
    LET data == get_bytes(val.data, val.start, val.end)
    IN  IF data = Err THEN Panic
        ELSE Some(from_utf8_lossy(data.val))

\* promoted_str with the blocks taken last to first
promoted_str_reversed(promoted_body, prom) ==
    LET n == Len(promoted_body.basic_blocks)
        strs == [i \in 1..n |->
                    get_bb_refed_strs(promoted_body.basic_blocks[n + 1 - i], prom)]
    IN  IF AnyPanic(strs) THEN Panic
        ELSE LET str_vec == [i \in 1..Len(strs) |-> Join(strs[i].val)]
             IN  IF Len(str_vec) > 0 THEN Some(Join(str_vec)) ELSE NoneV

\* promoted_str returning a string only when it found one
promoted_str_absent_when_empty(promoted_body, prom) ==
    LET strs == [i \in 1..Len(promoted_body.basic_blocks) |->
                    get_bb_refed_strs(promoted_body.basic_blocks[i], prom)]
    IN  IF AnyPanic(strs) THEN Panic
        ELSE LET str_vec == [i \in 1..Len(strs) |-> Join(strs[i].val)]
             IN  IF Len(Join(str_vec)) > 0 THEN Some(Join(str_vec)) ELSE NoneV

\* the strings of every block of a promoted body, joined per block and then
\* joined again; nothing when the body has no block
promoted_str(promoted_body, prom) ==
    LET strs == [i \in 1..Len(promoted_body.basic_blocks) |->
                    get_bb_refed_strs(promoted_body.basic_blocks[i], prom)]
    IN  IF AnyPanic(strs) THEN Panic
        ELSE LET str_vec == [i \in 1..Len(strs) |-> Join(strs[i].val)]
             IN  IF Len(str_vec) > 0 THEN Some(Join(str_vec)) ELSE NoneV

\* ty_const_str indexing the table, prom[promoted], instead of prom.get
ty_const_str_indexed(cst, prom) ==
    IF cst.k = "Unevaluated" /\ IsSome(cst.promoted)
    THEN IF IsSome(PromGet(prom, cst.promoted.val))
         THEN promoted_str(PromGet(prom, cst.promoted.val).val, prom)
         ELSE Panic
    ELSE NoneV

\* the ConstantKind::Ty arm: an unevaluated constant naming a promoted body
\* of the table resolves through that body, everything else is None
ty_const_str(cst, prom) ==
    IF IsSome(promoted_body_of(cst, prom))
    THEN promoted_str(promoted_body_of(cst, prom).val, prom)
    ELSE NoneV

\* the ConstantKind::Val arm: a slice constant of type &str
val_const_str(val, ty) ==
    IF /\ ty.kind = "Ref"
       /\ ty.ty.kind = "Str"
       /\ val.cv = "Slice"
    THEN slice_str(val)
    ELSE NoneV

str_const_from_operand(opr, prom) ==
    IF opr.op = "Constant"
    THEN IF opr.literal.ck = "Val"
         THEN val_const_str(opr.literal.val, opr.literal.ty)
         ELSE ty_const_str(opr.literal.val, prom)
    ELSE NoneV

\* aggregate_str without the test for an empty str_vec
aggregate_str_always_some(v, prom) ==
    LET rs == [i \in 1..Len(v) |-> str_const_from_operand(v[i], prom)]
    IN  IF AnyPanic(rs) THEN Panic
        ELSE Some(Join(FilterMap(rs)))

\* the Rvalue::Aggregate arm: the elements that resolve, joined
aggregate_str(v, prom) ==
    LET rs == [i \in 1..Len(v) |-> str_const_from_operand(v[i], prom)]
    IN  IF AnyPanic(rs) THEN Panic
        ELSE LET str_vec == FilterMap(rs)
             IN  IF Len(str_vec) > 0 THEN Some(Join(str_vec)) ELSE NoneV

\* stmt_str trying the right operand of a binary-op when the left gives none
stmt_str_either_operand(stmt, prom) ==
    IF stmt.kind = "Assign"
    THEN CASE stmt.rvalue.rv \in {"Use", "Repeat", "Cast"} ->
                str_const_from_operand(stmt.rvalue.opr, prom)
           [] stmt.rvalue.rv = "BinaryOp" ->
                IF str_const_from_operand(stmt.rvalue.ops[1], prom) = NoneV
                THEN str_const_from_operand(stmt.rvalue.ops[2], prom)
                ELSE str_const_from_operand(stmt.rvalue.ops[1], prom)
           [] stmt.rvalue.rv = "Aggregate" ->
                aggregate_str(stmt.rvalue.v, prom)
           [] OTHER -> NoneV
    ELSE NoneV

\* the closure of the filter_map over the statements
stmt_str(stmt, prom) ==
    IF stmt.kind = "Assign"
    THEN CASE stmt.rvalue.rv = "Use" ->
                str_const_from_operand(stmt.rvalue.opr, prom)
           [] stmt.rvalue.rv = "Repeat" ->
                str_const_from_operand(stmt.rvalue.opr, prom)
           [] stmt.rvalue.rv = "Cast" ->
                str_const_from_operand(stmt.rvalue.opr, prom)
           [] stmt.rvalue.rv = "BinaryOp" ->
                str_const_from_operand(stmt.rvalue.ops[1], prom)
           [] stmt.rvalue.rv = "Aggregate" ->
                aggregate_str(stmt.rvalue.v, prom)
           [] OTHER -> NoneV
    ELSE NoneV

\* args_strs joining the arguments that resolve into one entry
args_strs_joined(kind, prom) ==
    IF kind.tag = "Call"
    THEN LET rs == [i \in 1..Len(kind.args) |->
                        str_const_from_operand(kind.args[i], prom)]
         IN  IF AnyPanic(rs) THEN Panic
             ELSE IF FilterMap(rs) = <<>> THEN Ok(<<>>)
                  ELSE Ok(<<Join(FilterMap(rs))>>)
    ELSE Ok(<<>>)

\* the strings of the arguments of a call terminator, one entry each
args_strs(kind, prom) ==
    IF kind.tag = "Call"
    THEN LET rs == [i \in 1..Len(kind.args) |->
                        str_const_from_operand(kind.args[i], prom)]
         IN  IF AnyPanic(rs) THEN Panic ELSE Ok(FilterMap(rs))
    ELSE Ok(<<>>)

get_bb_refed_strs(bb, prom) ==
    LET rs == [i \in 1..Len(bb.statements) |-> stmt_str(bb.statements[i], prom)]
    IN  IF AnyPanic(rs) THEN Panic
        ELSE LET ref_strs == FilterMap(rs)
                 args == args_strs(bb.terminator.kind, prom)
             IN  IF IsPanic(args) THEN Panic
                 ELSE Ok(ref_strs \o args.val)

(***************************************************************************)
(* impl From<&TerminatorKind> for MirTerminator.                           *)
(***************************************************************************)
\* format!("{:?}", x): the debug text of x, a function of x alone
fmt_debug(x) == [debug |-> x]

\* SwitchTargets::all_targets: every target, the otherwise target last
all_targets(targets) == targets.targets

\* map_as_u32 falling back to block 0 when there is no edge
map_as_u32_or_zero(o) == IF IsSome(o) THEN Some(as_u32(o.val)) ELSE Some(0)

\* Option<BasicBlock>::map(|x| x.as_u32())
map_as_u32(o) == IF IsSome(o) THEN Some(as_u32(o.val)) ELSE NoneV

\* switch_targets over the valued branches only, the otherwise target left out
switch_targets_valued(targets) ==
    [i \in 1..Len(targets.values) |-> as_u32(all_targets(targets)[i])]

\* the target list of a SwitchInt: the raw index of every target, collected
switch_targets(targets) ==
    [i \in 1..Len(all_targets(targets)) |-> as_u32(all_targets(targets)[i])]

\* the fields of each variant of the enum MirTerminator
MirTerminatorFields(tag) ==
    CASE tag = "Goto" -> {"target"}
      [] tag = "SwitchInt" -> {"targets"}
      [] tag \in {"Drop", "DropAndReplace"} -> {"target", "unwind"}
      [] tag = "Call" -> {"func", "args", "dest", "cleanup"}
      [] tag = "Assert" -> {"cond", "target", "cleanup"}
      [] tag = "Yield" -> {"val", "resume", "drop"}
      [] tag = "FalseEdge" -> {"real_target", "imaginary_target"}
      [] tag = "FalseUnwind" -> {"real_target", "unwind"}
      [] tag = "InlineAsm" -> {"dest"}
      [] tag \in {"Resume", "Abort", "Return", "Unreachable", "GeneratorDrop"} -> {}

MirTerminator_from(k) ==
    CASE k.tag = "Goto" ->
            [tag |-> "Goto", target |-> as_u32(k.target)]
      [] k.tag = "SwitchInt" ->
            [tag |-> "SwitchInt", targets |-> switch_targets(k.targets)]
      [] k.tag = "Resume" -> [tag |-> "Resume"]
      [] k.tag = "Abort" -> [tag |-> "Abort"]
      [] k.tag = "Return" -> [tag |-> "Return"]
      [] k.tag = "Unreachable" -> [tag |-> "Unreachable"]
      [] k.tag = "Drop" ->
            [tag |-> "Drop", target |-> as_u32(k.target),
             unwind |-> map_as_u32(k.unwind)]
      [] k.tag = "DropAndReplace" ->
            [tag |-> "DropAndReplace", target |-> as_u32(k.target),
             unwind |-> map_as_u32(k.unwind)]
      [] k.tag = "Call" ->
            [tag |-> "Call", func |-> fmt_debug(k.func),
             args |-> [i \in 1..Len(k.args) |-> fmt_debug(k.args[i])],
             dest |-> map_as_u32(k.target),
             cleanup |-> map_as_u32(k.cleanup)]
      [] k.tag = "Assert" ->
            [tag |-> "Assert", cond |-> fmt_debug(k.cond),
             target |-> as_u32(k.target),
             cleanup |-> map_as_u32(k.cleanup)]
      [] k.tag = "Yield" ->
            [tag |-> "Yield", val |-> fmt_debug(k.value),
             resume |-> as_u32(k.resume), drop |-> map_as_u32(k.drop)]
      [] k.tag = "GeneratorDrop" -> [tag |-> "GeneratorDrop"]
      [] k.tag = "FalseEdge" ->
            [tag |-> "FalseEdge", real_target |-> as_u32(k.real_target),
             imaginary_target |-> as_u32(k.imaginary_target)]
      [] k.tag = "FalseUnwind" ->
            [tag |-> "FalseUnwind", real_target |-> as_u32(k.real_target),
             unwind |-> map_as_u32(k.unwind)]
      [] k.tag = "InlineAsm" ->
            [tag |-> "InlineAsm", dest |-> map_as_u32(k.destination)]

(***************************************************************************)
(* The inputs explored.                                                    *)
(***************************************************************************)
\* the one allocation behind every slice constant: "A", "B" and a byte that
\* is no UTF-8
AllocBytes == <<65, 66, 255>>

StrSlice(start, end) ==
    ConstantVal(ConstSlice(AllocBytes, start, end), TyRef("Str"))
StrA == StrSlice(0, 1)
StrB == StrSlice(1, 2)
StrOutOfBounds == StrSlice(0, MaxEnd)
PromotedRef(i) == ConstantTy(Unevaluated(Some(i)))

Operands ==
    {OperandCopy, OperandMove}
    \cup {StrSlice(s, e) : s \in 0..MaxEnd, e \in 0..MaxEnd}
    \cup {ConstantVal(ConstSlice(AllocBytes, 0, 1), TyRef("Slice")),
          ConstantVal(ConstScalar, TyInt),
          ConstantTy(ConstKindValue),
          ConstantTy(Unevaluated(NoneV))}
    \cup {PromotedRef(i) : i \in 0..MaxPromBlocks}

GotoKind(b) == [tag |-> "Goto", target |-> b]
ReturnKind == [tag |-> "Return"]
CallKind(args, target, cleanup) ==
    [tag |-> "Call", func |-> OperandCopy, args |-> args,
     target |-> target, cleanup |-> cleanup]

Body(blocks) == [basic_blocks |-> blocks]

\* the blocks a promoted body at index idx is made of: one yielding "A" from
\* a statement, one yielding "B" from a call argument, one yielding nothing,
\* one reading out of bounds, one referencing the next promoted body (the
\* promoted bodies of a body are its sub-expressions, never itself)
PromBlocks(idx) ==
    {BasicBlockData(<<Assign(Use(StrA))>>, ReturnKind),
     BasicBlockData(<<>>, CallKind(<<StrB>>, NoneV, NoneV)),
     BasicBlockData(<<Assign(Use(OperandCopy))>>, ReturnKind),
     BasicBlockData(<<Assign(Use(StrOutOfBounds))>>, ReturnKind),
     BasicBlockData(<<Assign(Use(PromotedRef(idx + 1)))>>, ReturnKind)}

RECURSIVE TablesFrom(_, _)
\* the tables whose bodies, from index idx on, hold at most n blocks in all;
\* every body has at least its start block
TablesFrom(idx, n) ==
    {<<>>} \cup
    UNION {{<<Body(blocks)>> \o rest :
                blocks \in [1..k -> PromBlocks(idx)],
                rest \in TablesFrom(idx + 1, n - k)} : k \in 1..n}

Tables == TablesFrom(0, MaxPromBlocks)

\* the tables the harvested blocks are paired with: none or one promoted
\* body of one block
HarvestTables == TablesFrom(0, 1)

BlockOperands == {OperandCopy, StrA, StrB, StrOutOfBounds, PromotedRef(0)}

Statements ==
    {Assign(Use(o)) : o \in BlockOperands}
    \cup {Assign(Repeat(o)) : o \in BlockOperands}
    \cup {Assign(Cast(o)) : o \in BlockOperands}
    \cup {Assign(UnaryOp(o)) : o \in BlockOperands}
    \cup {Assign(BinaryOp(l, r)) : l \in BlockOperands, r \in BlockOperands}
    \cup {Assign(CheckedBinaryOp(o, o)) : o \in BlockOperands}
    \cup {Assign(Aggregate(v)) : v \in SeqsUpTo(BlockOperands, MaxLen)}
    \cup {StorageLive, Nop}

CoreOperands == {OperandCopy, StrA, StrB}

CoreStatements ==
    {Assign(Use(StrA)), Assign(Use(StrB)), Assign(Use(OperandCopy)),
     Assign(Aggregate(<<StrB, StrA>>)), Assign(BinaryOp(OperandCopy, StrB)),
     StorageLive}

CoreTerminators ==
    {ReturnKind, GotoKind(BasicBlock(0))}
    \cup {CallKind(args, NoneV, NoneV) : args \in SeqsUpTo(CoreOperands, MaxLen)}

\* blocks of one statement of any shape or of one call, and blocks of several
\* core statements followed by any core terminator
Blocks ==
    {BasicBlockData(<<s>>, ReturnKind) : s \in Statements}
    \cup {BasicBlockData(<<>>, CallKind(args, NoneV, NoneV)) :
              args \in SeqsUpTo(BlockOperands, MaxLen)}
    \cup {BasicBlockData(ss, t) : ss \in SeqsUpTo(CoreStatements, MaxLen),
                                  t \in CoreTerminators}

BasicBlocks == {BasicBlock(n) : n \in 0..MaxBB}
OptBasicBlocks == {NoneV} \cup {Some(b) : b \in BasicBlocks}

SwitchTargets(targets) ==
    [values |-> [i \in 1..(Len(targets) - 1) |-> i], targets |-> targets]

TerminatorKinds ==
    {[tag |-> t] : t \in {"Resume", "Abort", "Return", "Unreachable",
                          "GeneratorDrop"}}
    \cup {GotoKind(b) : b \in BasicBlocks}
    \cup {[tag |-> "SwitchInt", targets |-> SwitchTargets(ts)] :
              ts \in SeqsUpTo(BasicBlocks, MaxTargets) \ {<<>>}}
    \cup {[tag |-> t, target |-> b, unwind |-> u] :
              t \in {"Drop", "DropAndReplace"}, b \in BasicBlocks,
              u \in OptBasicBlocks}
    \cup {CallKind(args, b, c) : args \in SeqsUpTo({OperandCopy, StrA}, MaxLen),
                                 b \in OptBasicBlocks, c \in OptBasicBlocks}
    \cup {[tag |-> "Assert", cond |-> OperandCopy, target |-> b, cleanup |-> c] :
              b \in BasicBlocks, c \in OptBasicBlocks}
    \cup {[tag |-> "Yield", value |-> OperandCopy, resume |-> b, drop |-> d] :
              b \in BasicBlocks, d \in OptBasicBlocks}
    \cup {[tag |-> "FalseEdge", real_target |-> b, imaginary_target |-> c] :
              b \in BasicBlocks, c \in BasicBlocks}
    \cup {[tag |-> "FalseUnwind", real_target |-> b, unwind |-> u] :
              b \in BasicBlocks, u \in OptBasicBlocks}
    \cup {[tag |-> "InlineAsm", destination |-> d] : d \in OptBasicBlocks}

(***************************************************************************)
(* One call of one of the three entry points per behaviour.                *)
(***************************************************************************)
Init ==
    /\ call_prom = <<>>
    /\ call_opr = NotCalled
    /\ call_bb = NotCalled
    /\ call_kind = NotCalled
    /\ ret_str = NotCalled
    /\ ret_strs = NotCalled
    /\ ret_term = NotCalled
    /\ stack = <<>>
    /\ pc = "idle"

CallStrConstFromOperand ==
    /\ pc = "idle"
    /\ \E opr \in Operands, prom \in Tables :
          /\ call_opr' = opr
          /\ call_prom' = prom
          /\ ret_str' = str_const_from_operand(opr, prom)
    /\ pc' = "returned"
    /\ UNCHANGED <<call_bb, call_kind, ret_strs, ret_term, stack>>

CallGetBbRefedStrs ==
    /\ pc = "idle"
    /\ \E bb \in Blocks, prom \in HarvestTables :
          /\ call_bb' = bb
          /\ call_prom' = prom
          /\ ret_strs' = get_bb_refed_strs(bb, prom)
    /\ pc' = "returned"
    /\ UNCHANGED <<call_opr, call_kind, ret_str, ret_term, stack>>

CallMirTerminatorFrom ==
    /\ pc = "idle"
    /\ \E k \in TerminatorKinds :
          /\ call_kind' = k
          /\ ret_term' = MirTerminator_from(k)
    /\ pc' = "returned"
    /\ UNCHANGED <<call_prom, call_opr, call_bb, ret_str, ret_strs, stack>>

Next ==
    \/ CallStrConstFromOperand
    \/ CallGetBbRefedStrs
    \/ CallMirTerminatorFrom

Spec == Init /\ [][Next]_vars

(***************************************************************************)
(* Vocabulary of the properties.                                           *)
(***************************************************************************)
RECURSIVE Flatten(_)
\* the entries of a list of lists, in order
Flatten(lists) ==
    IF lists = <<>> THEN <<>> ELSE Head(lists) \o Flatten(Tail(lists))

IsPrefix(a, b) == Len(a) <= Len(b) /\ SubSeq(b, 1, Len(a)) = a

IsConstant(o) == o.op = "Constant"

\* a direct string constant: a slice constant of type &str
IsDirectStr(o) ==
    /\ IsConstant(o)
    /\ o.literal.ck = "Val"
    /\ o.literal.ty = TyRef("Str")
    /\ o.literal.val.cv = "Slice"

\* its byte range [start, end) does not lie inside its allocation
OutOfBounds(o) ==
    \/ o.literal.val.end > Len(o.literal.val.data)
    \/ o.literal.val.start > Len(o.literal.val.data)

\* an unevaluated constant naming a promotion index
IsPromotedRef(o) ==
    /\ IsConstant(o)
    /\ o.literal.ck = "Ty"
    /\ o.literal.val.k = "Unevaluated"
    /\ IsSome(o.literal.val.promoted)

PromotedIndex(o) == o.literal.val.promoted.val

\* ... whose index has an entry in the table
IsPromotedHit(o, prom) ==
    IsPromotedRef(o) /\ PromotedIndex(o) + 1 \in DOMAIN prom

PromotedBlocks(o, prom) == prom[PromotedIndex(o) + 1].basic_blocks

\* the harvest of every block of the promoted body o names
PromotedHarvest(o, prom) ==
    [i \in 1..Len(PromotedBlocks(o, prom)) |->
        get_bb_refed_strs(PromotedBlocks(o, prom)[i], prom)]

\* a promoted reference with an entry none of whose blocks yields a string
IsEmptyPromoted(o, prom) ==
    /\ IsPromotedHit(o, prom)
    /\ \A i \in DOMAIN PromotedHarvest(o, prom) :
          PromotedHarvest(o, prom)[i] = Ok(<<>>)

\* the operand a statement hands to the resolver directly (use, repeat,
\* cast, left of a binary-op), as a list of none or one
DirectOperands(stmt) ==
    IF stmt.kind # "Assign" THEN <<>>
    ELSE IF stmt.rvalue.rv \in {"Use", "Repeat", "Cast"}
         THEN <<stmt.rvalue.opr>>
         ELSE IF stmt.rvalue.rv = "BinaryOp" THEN <<stmt.rvalue.ops[1]>>
              ELSE <<>>

\* every operand the harvest of a statement examines
ExaminedOperands(stmt) ==
    IF stmt.kind = "Assign" /\ stmt.rvalue.rv = "Aggregate"
    THEN stmt.rvalue.v
    ELSE DirectOperands(stmt)

CallArgs(bb) ==
    IF bb.terminator.kind.tag = "Call" THEN bb.terminator.kind.args ELSE <<>>

\* every operand the harvest of a block examines, in order
HarvestedOperands(bb) ==
    Flatten([i \in 1..Len(bb.statements) |-> ExaminedOperands(bb.statements[i])])
    \o CallArgs(bb)

Range(f) == {f[i] : i \in DOMAIN f}

HarvestCalled == call_bb # NotCalled
ResolveCalled == call_opr # NotCalled
ConvertCalled == call_kind # NotCalled

Resolves(o) == IsSome(str_const_from_operand(o, call_prom))

\* the same statements as a block of their own, ending in a return
OnlyStatements(ss) == BasicBlockData(ss, ReturnKind)

(***************************************************************************)
(* C1.  Resolving a promoted reference whose index is in the table returns *)
(* the strings harvested from every block of that promoted body, in block  *)
(* order and within a block in harvest order, concatenated with no         *)
(* separator ("A" then "B" give "AB").                                     *)
(***************************************************************************)
C1_PromotedConcatenation ==
    (/\ ResolveCalled
     /\ IsPromotedHit(call_opr, call_prom)
     /\ ~AnyPanic(PromotedHarvest(call_opr, call_prom)))
    => ret_str =
         Some(Join(Flatten([i \in DOMAIN PromotedHarvest(call_opr, call_prom) |->
                               PromotedHarvest(call_opr, call_prom)[i].val])))

C1_Witness ==
    /\ ResolveCalled
    /\ IsPromotedHit(call_opr, call_prom)
    /\ PromotedHarvest(call_opr, call_prom) = <<Ok(<< <<65>> >>), Ok(<< <<66>> >>)>>
    /\ ret_str = Some(<<65, 66>>)

(***************************************************************************)
(* C2.  A promoted reference with an entry none of whose blocks yields a   *)
(* string resolves to the empty string, present and not absent; such an    *)
(* operand in a use, repeat, cast, left of a binary-op or call argument    *)
(* adds an empty-string entry to the block's list.                         *)
(***************************************************************************)
C2_EmptyPromotedIsPresent ==
    /\ (ResolveCalled /\ IsEmptyPromoted(call_opr, call_prom))
         => ret_str = Some(<<>>)
    /\ (HarvestCalled /\ ~IsPanic(ret_strs))
         => LET direct == Flatten([i \in 1..Len(call_bb.statements) |->
                                      DirectOperands(call_bb.statements[i])])
                          \o CallArgs(call_bb)
            IN  Cardinality({i \in DOMAIN direct :
                                IsEmptyPromoted(direct[i], call_prom)})
                <= Cardinality({i \in DOMAIN ret_strs.val : ret_strs.val[i] = <<>>})

C2_Witness ==
    /\ ResolveCalled
    /\ IsEmptyPromoted(call_opr, call_prom)
    /\ Len(PromotedBlocks(call_opr, call_prom)) = 2
    /\ ret_str = Some(<<>>)

(***************************************************************************)
(* C3.  An assignment of an aggregate appends exactly one entry, the       *)
(* elements that resolve joined in element order with no separator; the    *)
(* elements that do not resolve are dropped, and an aggregate none of      *)
(* whose elements resolves appends nothing.                                *)
(***************************************************************************)
C3_AggregateJoin ==
    (HarvestCalled /\ ~IsPanic(ret_strs))
    => \A i \in 1..Len(call_bb.statements) :
         LET stmt == call_bb.statements[i]
             before == get_bb_refed_strs(
                          OnlyStatements(SubSeq(call_bb.statements, 1, i - 1)),
                          call_prom)
             upto == get_bb_refed_strs(
                          OnlyStatements(SubSeq(call_bb.statements, 1, i)),
                          call_prom)
             resolved == SelectSeq(stmt.rvalue.v, Resolves)
         IN  (stmt.kind = "Assign" /\ stmt.rvalue.rv = "Aggregate")
             => /\ IsPrefix(upto.val, ret_strs.val)
                /\ upto.val =
                     before.val \o
                     (IF resolved = <<>> THEN <<>>
                      ELSE <<Join([j \in 1..Len(resolved) |->
                                    str_const_from_operand(resolved[j], call_prom).val])>>)

C3_Witness ==
    /\ HarvestCalled
    /\ call_bb.statements = <<Assign(Aggregate(<<OperandCopy, StrA>>))>>
    /\ ret_strs = Ok(<< <<65>> >>)

(***************************************************************************)
(* C4.  The list of a block is the entries of its statements in statement  *)
(* order, followed, when the terminator is a call, by one entry for each   *)
(* argument that resolves, in argument order; with any other terminator it *)
(* is the statement entries alone.                                         *)
(***************************************************************************)
C4_StatementsThenArguments ==
    (HarvestCalled /\ ~IsPanic(ret_strs))
    => LET perStmt == [i \in 1..Len(call_bb.statements) |->
                          get_bb_refed_strs(
                              OnlyStatements(<<call_bb.statements[i]>>),
                              call_prom).val]
           resolved == SelectSeq(CallArgs(call_bb), Resolves)
           perArg == [j \in 1..Len(resolved) |->
                          str_const_from_operand(resolved[j], call_prom).val]
       IN  /\ \A i \in DOMAIN perStmt : Len(perStmt[i]) <= 1
           /\ ret_strs.val = Flatten(perStmt) \o perArg

C4_Witness ==
    /\ HarvestCalled
    /\ call_bb.statements = <<Assign(Use(StrB)), Assign(Use(StrA))>>
    /\ CallArgs(call_bb) = <<StrA, StrB>>
    /\ ret_strs = Ok(<< <<66>>, <<65>>, <<65>>, <<66>> >>)

(***************************************************************************)
(* C5.  A direct string constant whose byte range is out of bounds of its  *)
(* allocation makes the extraction fail fatally: the resolver returns      *)
(* neither "no string" nor an empty string and the harvest returns no      *)
(* list, also when the constant is reached through a promoted body, an     *)
(* aggregate element or a call argument.                                   *)
(***************************************************************************)
RECURSIVE ReachesViolation(_, _)
\* the resolution of o reads an out-of-bounds direct string constant
ReachesViolation(o, prom) ==
    \/ IsDirectStr(o) /\ OutOfBounds(o)
    \/ /\ IsPromotedHit(o, prom)
       /\ \E i \in DOMAIN PromotedBlocks(o, prom) :
            \E x \in Range(HarvestedOperands(PromotedBlocks(o, prom)[i])) :
                ReachesViolation(x, prom)

C5_BoundsViolationIsFatal ==
    /\ (ResolveCalled /\ ReachesViolation(call_opr, call_prom))
         => ret_str = Panic
    /\ (/\ HarvestCalled
        /\ \E x \in Range(HarvestedOperands(call_bb)) :
              ReachesViolation(x, call_prom))
         => ret_strs = Panic

C5_Witness ==
    /\ HarvestCalled
    /\ call_bb.statements = <<Assign(Aggregate(<<StrA, PromotedRef(0)>>))>>
    /\ ReachesViolation(PromotedRef(0), call_prom)
    /\ ret_strs = Panic

(***************************************************************************)
(* C6.  The resolver returns none, and does not fail, for an operand that  *)
(* is no constant, for a constant that is neither a direct string constant *)
(* nor an unevaluated promoted reference, and for a promoted reference     *)
(* whose index has no entry in the table; such operands add no entry to    *)
(* the list of a block.                                                    *)
(***************************************************************************)
IsUnsupported(o, prom) ==
    \/ ~IsConstant(o)
    \/ IsConstant(o) /\ ~IsDirectStr(o) /\ ~IsPromotedRef(o)
    \/ IsPromotedRef(o) /\ ~IsPromotedHit(o, prom)

C6_UnsupportedIsNone ==
    /\ (ResolveCalled /\ IsUnsupported(call_opr, call_prom))
         => ret_str = NoneV
    /\ (/\ HarvestCalled
        /\ \A x \in Range(HarvestedOperands(call_bb)) :
              IsUnsupported(x, call_prom))
         => ret_strs = Ok(<<>>)

C6_Witness ==
    /\ ResolveCalled
    /\ IsPromotedRef(call_opr)
    /\ Len(call_prom) = 2
    /\ PromotedIndex(call_opr) = 2
    /\ ret_str = NoneV

(***************************************************************************)
(* C7.  The conversion of a terminator gives the snapshot variant of the   *)
(* same kind, for every kind; every mandatory target of the snapshot is    *)
(* the raw index of the original target, and every optional target is      *)
(* None exactly when the original has no such edge and otherwise Some of   *)
(* the raw index of the original.                                          *)
(***************************************************************************)
TerminatorTags ==
    {"Goto", "SwitchInt", "Resume", "Abort", "Return", "Unreachable", "Drop",
     "DropAndReplace", "Call", "Assert", "Yield", "GeneratorDrop",
     "FalseEdge", "FalseUnwind", "InlineAsm"}

\* <<kind, field of the terminator, field of the snapshot>>
MandatoryTargets ==
    {<<"Goto", "target", "target">>,
     <<"Drop", "target", "target">>,
     <<"DropAndReplace", "target", "target">>,
     <<"Assert", "target", "target">>,
     <<"Yield", "resume", "resume">>,
     <<"FalseEdge", "real_target", "real_target">>,
     <<"FalseEdge", "imaginary_target", "imaginary_target">>,
     <<"FalseUnwind", "real_target", "real_target">>}

OptionalTargets ==
    {<<"Drop", "unwind", "unwind">>,
     <<"DropAndReplace", "unwind", "unwind">>,
     <<"Call", "target", "dest">>,
     <<"Call", "cleanup", "cleanup">>,
     <<"Assert", "cleanup", "cleanup">>,
     <<"Yield", "drop", "drop">>,
     <<"FalseUnwind", "unwind", "unwind">>,
     <<"InlineAsm", "destination", "dest">>}

C7_TerminatorConversionFaithful ==
    ConvertCalled
    => /\ call_kind.tag \in TerminatorTags
       /\ ret_term.tag = call_kind.tag
       /\ DOMAIN ret_term = {"tag"} \cup MirTerminatorFields(call_kind.tag)
       /\ \A m \in MandatoryTargets :
            m[1] = call_kind.tag
            => ret_term[m[3]] = call_kind[m[2]].private
       /\ \A m \in OptionalTargets :
            m[1] = call_kind.tag
            => /\ (ret_term[m[3]] = NoneV) <=> (call_kind[m[2]] = NoneV)
               /\ IsSome(call_kind[m[2]])
                    => ret_term[m[3]] = Some(call_kind[m[2]].val.private)

C7_Witness ==
    /\ ConvertCalled
    /\ call_kind.tag = "Call"
    /\ call_kind.target = Some(BasicBlock(1))
    /\ call_kind.cleanup = NoneV
    /\ ret_term.dest = Some(1)
    /\ ret_term.cleanup = NoneV

(***************************************************************************)
(* C8.  The targets of the snapshot of a SwitchInt are all its branch      *)
(* targets, the otherwise target included, in the original order and as    *)
(* many as the original has: duplicates stay and nothing is reordered.     *)
(***************************************************************************)
C8_SwitchIntTargetsKept ==
    (ConvertCalled /\ call_kind.tag = "SwitchInt")
    => /\ Len(ret_term.targets) = Len(call_kind.targets.values) + 1
       /\ \A i \in 1..Len(call_kind.targets.targets) :
            ret_term.targets[i] = call_kind.targets.targets[i].private

C8_Witness ==
    /\ ConvertCalled
    /\ call_kind.tag = "SwitchInt"
    /\ call_kind.targets.targets = <<BasicBlock(1), BasicBlock(0), BasicBlock(1)>>
    /\ ret_term.targets = <<1, 0, 1>>

(***************************************************************************)
(* C10.  Only assignments of a use, repeat, cast, binary-op or aggregate   *)
(* are harvested, and of a binary-op only the left operand: a string       *)
(* constant that is only the right operand of a binary-op, or that stands  *)
(* in another shape of right-hand side, adds no entry and is not read.     *)
(* Every harvested statement adds at most one entry, so the list is never  *)
(* longer than the statements and the call arguments together.             *)
(***************************************************************************)
\* the statement adds an entry: it is of a harvested shape and an operand
\* the harvest examines resolves
AddsEntry(stmt) ==
    \E x \in Range(ExaminedOperands(stmt)) : Resolves(x)

\* the statement with what the harvest does not examine taken away
Examined(stmt) ==
    IF stmt.kind # "Assign" THEN Nop
    ELSE IF stmt.rvalue.rv \in {"Use", "Repeat", "Cast", "Aggregate"} THEN stmt
         ELSE IF stmt.rvalue.rv = "BinaryOp"
              THEN Assign(BinaryOp(stmt.rvalue.ops[1], OperandCopy))
              ELSE Nop

C10_HarvestedShapes ==
    HarvestCalled
    => /\ ret_strs =
            get_bb_refed_strs(
                [call_bb EXCEPT !.statements =
                    [i \in 1..Len(call_bb.statements) |->
                        Examined(call_bb.statements[i])]],
                call_prom)
       /\ ~IsPanic(ret_strs)
            => /\ Len(ret_strs.val) =
                    Cardinality({i \in 1..Len(call_bb.statements) :
                                    AddsEntry(call_bb.statements[i])})
                    + Cardinality({j \in 1..Len(CallArgs(call_bb)) :
                                    Resolves(CallArgs(call_bb)[j])})
               /\ Len(ret_strs.val)
                    <= Len(call_bb.statements) + Len(CallArgs(call_bb))

C10_Witness ==
    /\ HarvestCalled
    /\ call_bb.statements = <<Assign(BinaryOp(OperandCopy, StrB)), Assign(Use(StrA))>>
    /\ ret_strs = Ok(<< <<65>> >>)

(***************************************************************************)
(* The harvest of one block run call by call.  The stack holds the         *)
(* activations of get_bb_refed_strs (a block, the statement or argument i  *)
(* it is at, the element j of that statement, the strings of the           *)
(* statement so far and the list so far) and of str_const_from_operand on  *)
(* a promoted body (the body, the block i it is at, the per-block strings  *)
(* so far).  A panic unwinds the whole stack.                              *)
(***************************************************************************)
BbFrame(bb) ==
    [fn |-> "get_bb_refed_strs", bb |-> bb, i |-> 1, j |-> 1,
     str_vec |-> <<>>, ref_strs |-> <<>>]

OprFrame(promoted_body) ==
    [fn |-> "str_const_from_operand", promoted_body |-> promoted_body,
     i |-> 1, str_vec |-> <<>>]

\* the operands the closure over the statements hands to the resolver
stmt_operands(stmt) ==
    IF stmt.kind = "Assign"
    THEN CASE stmt.rvalue.rv \in {"Use", "Repeat", "Cast"} -> <<stmt.rvalue.opr>>
           [] stmt.rvalue.rv = "BinaryOp" -> <<stmt.rvalue.ops[1]>>
           [] stmt.rvalue.rv = "Aggregate" -> stmt.rvalue.v
           [] OTHER -> <<>>
    ELSE <<>>

InStatements(f) == f.i <= Len(f.bb.statements)

InArgs(f) ==
    /\ ~InStatements(f)
    /\ f.bb.terminator.kind.tag = "Call"
    /\ f.i - Len(f.bb.statements) <= Len(f.bb.terminator.kind.args)

\* the frame is at an operand it has to resolve
AtOperand(f) ==
    \/ InStatements(f) /\ f.j <= Len(stmt_operands(f.bb.statements[f.i]))
    \/ InArgs(f)

CurrentOperand(f) ==
    IF InStatements(f)
    THEN stmt_operands(f.bb.statements[f.i])[f.j]
    ELSE f.bb.terminator.kind.args[f.i - Len(f.bb.statements)]

\* the resolution of an operand that enters no promoted body
leaf_str(opr) ==
    IF opr.op = "Constant" /\ opr.literal.ck = "Val"
    THEN val_const_str(opr.literal.val, opr.literal.ty)
    ELSE NoneV

EntersPromoted(opr, prom) ==
    /\ opr.op = "Constant"
    /\ opr.literal.ck = "Ty"
    /\ IsSome(promoted_body_of(opr.literal.val, prom))

\* the frame of get_bb_refed_strs once the operand it is at has resolved to r
Deliver(f, r) ==
    IF InStatements(f)
    THEN LET stmt == f.bb.statements[f.i]
             str_vec == IF IsSome(r) THEN Append(f.str_vec, r.val) ELSE f.str_vec
             entry == IF stmt.rvalue.rv = "Aggregate"
                      THEN IF Len(str_vec) > 0 THEN <<Join(str_vec)>> ELSE <<>>
                      ELSE str_vec
         IN  IF f.j < Len(stmt_operands(stmt))
             THEN [f EXCEPT !.j = f.j + 1, !.str_vec = str_vec]
             ELSE [f EXCEPT !.i = f.i + 1, !.j = 1, !.str_vec = <<>>,
                            !.ref_strs = f.ref_strs \o entry]
    ELSE [f EXCEPT !.i = f.i + 1,
                   !.ref_strs = IF IsSome(r) THEN Append(f.ref_strs, r.val)
                                ELSE f.ref_strs]

Top == stack[Len(stack)]
Below == SubSeq(stack, 1, Len(stack) - 1)
Running == pc = "running" /\ stack # <<>>
InBlock == Running /\ Top.fn = "get_bb_refed_strs"
InOperand == Running /\ Top.fn = "str_const_from_operand"

RunFrame == <<call_opr, call_kind, ret_str, ret_term>>

\* an operand that enters no promoted body resolves in place; the unwrap of
\* an out-of-range read panics, and stack stays as the panic found it
ResolveLeaf ==
    /\ InBlock
    /\ AtOperand(Top)
    /\ ~EntersPromoted(CurrentOperand(Top), call_prom)
    /\ IF IsPanic(leaf_str(CurrentOperand(Top)))
       THEN /\ stack' = stack
            /\ pc' = "panicked"
            /\ ret_strs' = Panic
       ELSE /\ stack' = Append(Below, Deliver(Top, leaf_str(CurrentOperand(Top))))
            /\ UNCHANGED <<pc, ret_strs>>
    /\ UNCHANGED <<call_prom, call_bb, RunFrame>>

\* a promoted reference the table has: the resolver starts on its body
CallPromoted ==
    /\ InBlock
    /\ AtOperand(Top)
    /\ EntersPromoted(CurrentOperand(Top), call_prom)
    /\ Len(stack) < MaxDepth
    /\ stack' = Append(stack,
                   OprFrame(promoted_body_of(CurrentOperand(Top).literal.val,
                                             call_prom).val))
    /\ UNCHANGED <<call_prom, call_bb, ret_strs, pc, RunFrame>>

\* the resolver harvests the next block of the promoted body
EnterBlock ==
    /\ InOperand
    /\ Top.i <= Len(Top.promoted_body.basic_blocks)
    /\ Len(stack) < MaxDepth
    /\ stack' = Append(stack, BbFrame(Top.promoted_body.basic_blocks[Top.i]))
    /\ UNCHANGED <<call_prom, call_bb, ret_strs, pc, RunFrame>>

\* a statement the harvest examines no operand of
SkipStatement ==
    /\ InBlock
    /\ InStatements(Top)
    /\ stmt_operands(Top.bb.statements[Top.i]) = <<>>
    /\ stack' = Append(Below, [Top EXCEPT !.i = Top.i + 1])
    /\ UNCHANGED <<call_prom, call_bb, ret_strs, pc, RunFrame>>

\* get_bb_refed_strs returns its list: to the driver, or to the resolver,
\* which joins it and goes on to the next block
ReturnStrs ==
    /\ InBlock
    /\ ~InStatements(Top)
    /\ ~InArgs(Top)
    /\ IF Len(stack) = 1
       THEN /\ stack' = <<>>
            /\ pc' = "returned"
            /\ ret_strs' = Ok(Top.ref_strs)
       ELSE /\ stack' =
                 Append(SubSeq(stack, 1, Len(stack) - 2),
                        [stack[Len(stack) - 1] EXCEPT
                            !.str_vec = Append(@, Join(Top.ref_strs)),
                            !.i = @ + 1])
            /\ UNCHANGED <<pc, ret_strs>>
    /\ UNCHANGED <<call_prom, call_bb, RunFrame>>

\* the resolver is through the blocks of the promoted body and returns
ReturnStr ==
    /\ InOperand
    /\ Top.i > Len(Top.promoted_body.basic_blocks)
    /\ stack' =
          Append(SubSeq(stack, 1, Len(stack) - 2),
                 Deliver(stack[Len(stack) - 1],
                         IF Len(Top.str_vec) > 0 THEN Some(Join(Top.str_vec))
                         ELSE NoneV))
    /\ UNCHANGED <<call_prom, call_bb, ret_strs, pc, RunFrame>>

\* the blocks of the promoted bodies of the runs: the table is whatever the
\* driver hands over, a body may name any index, its own included
RunPromBlocks ==
    {BasicBlockData(<<Assign(Use(StrA))>>, ReturnKind),
     BasicBlockData(<<Assign(Use(StrOutOfBounds))>>, ReturnKind)}
    \cup {BasicBlockData(<<Assign(Use(PromotedRef(j)))>>, ReturnKind) :
              j \in 0..(MaxRunBlocks - 1)}

RECURSIVE RunTablesOf(_)
RunTablesOf(n) ==
    {<<>>} \cup
    UNION {{<<Body(blocks)>> \o rest :
                blocks \in [1..k -> RunPromBlocks],
                rest \in RunTablesOf(n - k)} : k \in 1..n}

RunTables == RunTablesOf(MaxRunBlocks)

RunBlocks ==
    {BasicBlockData(<<Assign(Use(PromotedRef(0)))>>, ReturnKind),
     BasicBlockData(<<Assign(Use(StrOutOfBounds)), Assign(Use(PromotedRef(0)))>>,
                    ReturnKind),
     BasicBlockData(<<Assign(Aggregate(<<StrB, PromotedRef(0)>>)), StorageLive>>,
                    CallKind(<<PromotedRef(1), StrA>>, NoneV, NoneV))}

RunInit ==
    /\ call_prom \in RunTables
    /\ call_bb \in RunBlocks
    /\ call_opr = NotCalled
    /\ call_kind = NotCalled
    /\ ret_str = NotCalled
    /\ ret_strs = NotCalled
    /\ ret_term = NotCalled
    /\ stack = <<BbFrame(call_bb)>>
    /\ pc = "running"

RunNext ==
    \/ ResolveLeaf
    \/ CallPromoted
    \/ EnterBlock
    \/ SkipStatement
    \/ ReturnStrs
    \/ ReturnStr

\* the call runs on until it returns or panics: nothing else is scheduled
RunSpec == RunInit /\ [][RunNext]_vars /\ WF_vars(RunNext)

(***************************************************************************)
(* C9.  The promotion-reference graph: body i refers to body j when a      *)
(* block of i hands the resolver a reference to j that the table has.      *)
(***************************************************************************)
\* the promoted bodies the harvest of these blocks enters
Entered(blocks) ==
    {PromotedIndex(x) :
        x \in {y \in UNION {Range(HarvestedOperands(blocks[i])) : i \in DOMAIN blocks} :
                  IsPromotedHit(y, call_prom)}}

BodyEntered(j) == Entered(call_prom[j + 1].basic_blocks)

RECURSIVE ReachedFrom(_, _)
\* the bodies reached from those of S in at most n further references
ReachedFrom(S, n) ==
    IF n = 0 THEN S
    ELSE ReachedFrom(S \cup UNION {BodyEntered(j) : j \in S}, n - 1)

ReachedBodies == ReachedFrom(Entered(<<call_bb>>), Len(call_prom))

\* body j leads back to itself
OnCycle(j) == j \in ReachedFrom(BodyEntered(j), Len(call_prom))

\* a body reached from the block leads back to itself
CycleReached == \E j \in ReachedBodies : OnCycle(j)

\* the resolver is at work on a body that leads back to itself
InCycle ==
    \E d \in DOMAIN stack :
        /\ stack[d].fn = "str_const_from_operand"
        /\ \E j \in ReachedBodies :
              OnCycle(j) /\ stack[d].promoted_body = call_prom[j + 1]

\* every operand a run from the block can hand to the resolver
ReachedOperands ==
    Range(HarvestedOperands(call_bb))
    \cup UNION {UNION {Range(HarvestedOperands(call_prom[j + 1].basic_blocks[i])) :
                          i \in DOMAIN call_prom[j + 1].basic_blocks} :
                   j \in ReachedBodies}

\* without a cycle a run ends as the call does: with its list, or in a panic
RunAgreesWithCall ==
    (pc \in {"returned", "panicked"} /\ ~CycleReached)
    => ret_strs = get_bb_refed_strs(call_bb, call_prom)

(***************************************************************************)
(* C9 as stated: the harvest of a block ends when the graph reached from   *)
(* it has no cycle, and once the resolver is in a body that leads back to  *)
(* itself the recursion never ends.                                        *)
(***************************************************************************)
C9_CycleNeverEnds == InCycle => pc = "running"

(***************************************************************************)
(* C9 as amended: the harvest of a block ends when the graph reached from  *)
(* it has no cycle; with a cycle it never returns a list: the recursion    *)
(* goes on without end, unless an out-of-bounds string constant read on    *)
(* the way aborts the pass.                                                *)
(***************************************************************************)
C9_EndsUnlessCycle ==
    /\ (~CycleReached) ~> (pc # "running")
    /\ [](CycleReached => pc # "returned")
    /\ []((CycleReached /\ pc = "panicked")
            => \E x \in ReachedOperands : IsDirectStr(x) /\ OutOfBounds(x))

\* the resolver is twice on the stack with the same promoted body
C9_Witness ==
    /\ CycleReached
    /\ pc = "running"
    /\ \E d \in DOMAIN stack, e \in DOMAIN stack :
          /\ d < e
          /\ stack[d].fn = "str_const_from_operand"
          /\ stack[e].fn = "str_const_from_operand"
          /\ stack[d].promoted_body = stack[e].promoted_body

====
